---- MODULE Spec2Model ----
(***************************************************************************)
(* BEPUik IKDistanceLimit (intern/bepuik/intern/IKDistanceLimit.cpp).      *)
(*                                                                         *)
(* A float is modelled as a fixed-point number: an integer count of units  *)
(* of 1/Scale.  One unit is 0.00005, so the 0.0001f of HasError is two     *)
(* units.  Sums and differences are exact, products, quotients and square  *)
(* roots are rounded to the nearest unit, as the float operations round to *)
(* the nearest representable value.  Bone positions and anchor points are  *)
(* whole numbers (multiples of Scale) and orientations are unit            *)
(* quaternions with components in {0, +-1/2, +-1}.                         *)
(***************************************************************************)
EXTENDS Integers, Sequences, FiniteSets, TLC

VARIABLES connectionA, connectionB, LocalAnchorA, LocalAnchorB,
          minimumDistance, maximumDistance, errorCorrectionFactor,
          error, velocityBias,
          linearJacobianA, linearJacobianB, angularJacobianA, angularJacobianB,
          last, given, calls

config == <<LocalAnchorA, LocalAnchorB, minimumDistance, maximumDistance,
            errorCorrectionFactor>>
bones == <<connectionA, connectionB>>
derived == <<error, velocityBias, linearJacobianA, linearJacobianB,
             angularJacobianA, angularJacobianB>>
vars == <<connectionA, connectionB, LocalAnchorA, LocalAnchorB,
          minimumDistance, maximumDistance, errorCorrectionFactor,
          error, velocityBias,
          linearJacobianA, linearJacobianB, angularJacobianA, angularJacobianB,
          last, given, calls>>

---------------------------------------------------------------------------
(* Fixed-point floats *)

\* 0.0001f of HasError, in units of 0.00005
ErrorThreshold == 2

\* units per 1.0f
Scale == 10000 * ErrorThreshold

\* Toolbox::Epsilon (1e-7f) is below one unit
Epsilon == 0

\* number of operations called on the constraint after its construction
MaxCalls == 3

Abs(a) == IF a < 0 THEN -a ELSE a

Sign(a) == IF a < 0 THEN -1 ELSE 1

\* round(a * b / d) for a, b >= 0 and d > 0, by long division in base 100 so
\* that no intermediate value leaves 32 bits
MulDivRound(a, b, d) ==
    LET b1 == b \div 100
        b0 == b % 100
        X  == a * b1
        qx == X \div d
        rx == X % d
        Y  == rx * 100 + a * b0
        qy == Y \div d
        ry == Y % d
    IN  qx * 100 + qy + (IF 2 * ry >= d THEN 1 ELSE 0)

\* float product a * b
FMul(a, b) ==
    IF a = 0 \/ b = 0 THEN 0
    ELSE Sign(a) * Sign(b) * MulDivRound(Abs(a), Abs(b), Scale)

\* float quotient a / d
FDiv(a, d) ==
    IF a = 0 THEN 0
    ELSE Sign(a) * Sign(d) * MulDivRound(Abs(a), Scale, Abs(d))

\* A number too wide for 32 bits is held as three limbs in base Scale:
\* <<n2, n1, n0>> is n2 * Scale^2 + n1 * Scale + n0, with n1, n0 < Scale.
Limbs(n2, n1, n0) ==
    LET c0 == n0 \div Scale
        c1 == (n1 + c0) \div Scale
    IN  <<n2 + c1, (n1 + c0) % Scale, n0 % Scale>>

\* a * a for a >= 0
Square(a) ==
    LET h == a \div Scale
        l == a % Scale
    IN  Limbs(h * h, 2 * h * l + (l * l) \div Scale, (l * l) % Scale)

Plus(m, n) == Limbs(m[1] + n[1], m[2] + n[2], m[3] + n[3])

AtMost(m, n) ==
    \/ m[1] < n[1]
    \/ m[1] = n[1] /\ m[2] < n[2]
    \/ m[1] = n[1] /\ m[2] = n[2] /\ m[3] <= n[3]

\* largest r in lo .. hi with r * r <= n; lo * lo <= n
RECURSIVE SqrtFloor(_, _, _)
SqrtFloor(n, lo, hi) ==
    IF lo = hi THEN lo
    ELSE LET mid == (lo + hi + 1) \div 2
         IN  IF AtMost(Square(mid), n)
             THEN SqrtFloor(n, mid, hi)
             ELSE SqrtFloor(n, lo, mid - 1)

\* sqrtf of the sum of the squares of x, y and z, to the nearest unit:
\* r + 1 where the sum is above (r + 1/2)^2 = r * r + r + 1/4
SqrtSumSquares(x, y, z) ==
    LET n == Plus(Plus(Square(Abs(x)), Square(Abs(y))), Square(Abs(z)))
        r == SqrtFloor(n, 0, Abs(x) + Abs(y) + Abs(z))
    IN  IF AtMost(n, Plus(Square(r), Limbs(0, 0, r))) THEN r ELSE r + 1

---------------------------------------------------------------------------
(* Vector3, Quaternion, Matrix3X3, MathHelper *)

Vec(x, y, z) == [X |-> x, Y |-> y, Z |-> z]

Quat(x, y, z, w) == [X |-> x, Y |-> y, Z |-> z, W |-> w]

ZeroVector == Vec(0, 0, 0)

Add(a, b) == Vec(a.X + b.X, a.Y + b.Y, a.Z + b.Z)

Subtract(a, b) == Vec(a.X - b.X, a.Y - b.Y, a.Z - b.Z)

Negate(v) == Vec(-v.X, -v.Y, -v.Z)

Cross(a, b) == Vec(FMul(a.Y, b.Z) - FMul(a.Z, b.Y),
                   FMul(a.Z, b.X) - FMul(a.X, b.Z),
                   FMul(a.X, b.Y) - FMul(a.Y, b.X))

Length(v) == SqrtSumSquares(v.X, v.Y, v.Z)

Conjugate(q) == Quat(-q.X, -q.Y, -q.Z, q.W)

\* Quaternion::Transform: v rotated by the quaternion
Transform(v, rotation) ==
    LET x2 == rotation.X + rotation.X
        y2 == rotation.Y + rotation.Y
        z2 == rotation.Z + rotation.Z
        xx2 == FMul(rotation.X, x2)
        xy2 == FMul(rotation.X, y2)
        xz2 == FMul(rotation.X, z2)
        yy2 == FMul(rotation.Y, y2)
        yz2 == FMul(rotation.Y, z2)
        zz2 == FMul(rotation.Z, z2)
        wx2 == FMul(rotation.W, x2)
        wy2 == FMul(rotation.W, y2)
        wz2 == FMul(rotation.W, z2)
    IN  Vec(FMul(v.X, Scale - yy2 - zz2) + FMul(v.Y, xy2 - wz2) + FMul(v.Z, xz2 + wy2),
            FMul(v.X, xy2 + wz2) + FMul(v.Y, Scale - xx2 - zz2) + FMul(v.Z, yz2 - wx2),
            FMul(v.X, xz2 - wy2) + FMul(v.Y, yz2 + wx2) + FMul(v.Z, Scale - xx2 - yy2))

Max(a, b) == IF a > b THEN a ELSE b

Matrix3X3 == [M11 |-> 0, M12 |-> 0, M13 |-> 0,
              M21 |-> 0, M22 |-> 0, M23 |-> 0,
              M31 |-> 0, M32 |-> 0, M33 |-> 0]

---------------------------------------------------------------------------
(* Inputs *)

W(k) == k * Scale

Identity == Quat(0, 0, 0, Scale)

\* a third of a turn about (1,1,1): X -> Y -> Z -> X
ThirdTurn == Quat(Scale \div 2, Scale \div 2, Scale \div 2, Scale \div 2)

\* a half turn about (1,2,2)/3; a third is no float, and each component is the
\* nearest one
HalfTurn == Quat((Scale + 1) \div 3, (2 * Scale) \div 3, (2 * Scale) \div 3, 0)

Orientations == {Identity, ThirdTurn}

Positions == {Vec(0, 0, 0), Vec(W(1), 0, 0)}

IKBone(position, orientation) == [Position |-> position, Orientation |-> orientation]

\* the poses, anchor points, distances and correction factor a constraint is
\* constructed with when the recomputation is checked over all of them
Bones == {IKBone(p, o) : p \in Positions, o \in Orientations}

AnchorPoints == {Vec(0, 0, 0), Vec(W(1), 0, 0), Vec(W(5) \div 2, 0, 0), Vec(W(4), 0, 0),
                 Vec(-W(2), 0, 0), Vec(W(1), W(2), W(2))}

UpdateAnchorPoints == {Vec(0, 0, 0), Vec(-W(2), 0, 0)}

Distances == {0, W(2), W(3) - 2, W(3) - 1, W(3), W(4), W(5)}

CorrectionFactors == {W(1) \div 4}

UpdateBones == {IKBone(Vec(W(1), 0, 0), ThirdTurn), IKBone(Vec(0, W(1), 0), HalfTurn)}

\* the inputs of the calls made on a constraint after its construction
CallBones == {IKBone(Vec(W(1), 0, 0), ThirdTurn), IKBone(Vec(0, 0, 0), Identity),
              IKBone(Vec(0, W(1), 0), HalfTurn)}

CallAnchorPoints == {Vec(W(1), W(2), W(2)), Vec(-W(2), 0, 0)}

CallDistances == {-W(1), W(5)}

---------------------------------------------------------------------------
(* IKDistanceLimit *)

Call(op, anchorA, anchorB, result) ==
    [op |-> op, anchorA |-> anchorA, anchorB |-> anchorB, result |-> result]

\* GetAnchorA / GetAnchorB: the local anchor in world space
WorldAnchor(localAnchor, connection) ==
    Add(connection.Position, Transform(localAnchor, connection.Orientation))

GetAnchorA == WorldAnchor(LocalAnchorA, connectionA)

GetAnchorB == WorldAnchor(LocalAnchorB, connectionB)

\* mutant: the offset is rotated by the orientation, not by its conjugate
LocalAnchorUnconjugated(anchor, connection) ==
    Transform(Subtract(anchor, connection.Position), connection.Orientation)

\* SetAnchorA / SetAnchorB: the world anchor in the bone's local frame
LocalAnchor(anchor, connection) ==
    Transform(Subtract(anchor, connection.Position), Conjugate(connection.Orientation))

GetMinimumDistance == minimumDistance

GetMaximumDistance == maximumDistance

\* mutant: the new distance is stored as given
ClampDistanceUnclamped(newDistance) == newDistance

ClampDistance(newDistance) == Max(0, newDistance)

SetAnchorA(anchor) ==
    /\ calls < MaxCalls
    /\ LocalAnchorA' = LocalAnchor(anchor, connectionA)
    /\ last' = Call("SetAnchorA", anchor, ZeroVector, FALSE)
    /\ calls' = calls + 1
    /\ UNCHANGED <<bones, LocalAnchorB, minimumDistance, maximumDistance,
                   errorCorrectionFactor, derived, given>>

SetAnchorB(anchor) ==
    /\ calls < MaxCalls
    /\ LocalAnchorB' = LocalAnchor(anchor, connectionB)
    /\ last' = Call("SetAnchorB", ZeroVector, anchor, FALSE)
    /\ calls' = calls + 1
    /\ UNCHANGED <<bones, LocalAnchorA, minimumDistance, maximumDistance,
                   errorCorrectionFactor, derived, given>>

SetMinimumDistance(newDistance) ==
    /\ calls < MaxCalls
    /\ minimumDistance' = ClampDistance(newDistance)
    /\ given' = [given EXCEPT !.minimumDistance = newDistance]
    /\ last' = Call("SetMinimumDistance", ZeroVector, ZeroVector, FALSE)
    /\ calls' = calls + 1
    /\ UNCHANGED <<bones, LocalAnchorA, LocalAnchorB, maximumDistance,
                   errorCorrectionFactor, derived>>

SetMaximumDistance(newDistance) ==
    /\ calls < MaxCalls
    /\ maximumDistance' = ClampDistance(newDistance)
    /\ given' = [given EXCEPT !.maximumDistance = newDistance]
    /\ last' = Call("SetMaximumDistance", ZeroVector, ZeroVector, FALSE)
    /\ calls' = calls + 1
    /\ UNCHANGED <<bones, LocalAnchorA, LocalAnchorB, minimumDistance,
                   errorCorrectionFactor, derived>>

\* the state after the constructor, which calls the four setters in turn; the
\* derived state is written by UpdateJacobiansAndVelocityBias alone and is zero
\* before the first call of it
IKDistanceLimit(a, b, anchorA, anchorB, minD, maxD, ecf) ==
    /\ connectionA = a
    /\ connectionB = b
    /\ LocalAnchorA = LocalAnchor(anchorA, a)
    /\ LocalAnchorB = LocalAnchor(anchorB, b)
    /\ minimumDistance = ClampDistance(minD)
    /\ maximumDistance = ClampDistance(maxD)
    /\ errorCorrectionFactor = ecf
    /\ error = 0
    /\ velocityBias = ZeroVector
    /\ linearJacobianA = Matrix3X3
    /\ linearJacobianB = Matrix3X3
    /\ angularJacobianA = Matrix3X3
    /\ angularJacobianB = Matrix3X3
    /\ last = Call("IKDistanceLimit", anchorA, anchorB, FALSE)
    /\ given = [minimumDistance |-> minD, maximumDistance |-> maxD]
    /\ calls = 0

Init ==
    \E a \in CallBones, b \in CallBones,
       anchorA \in CallAnchorPoints, anchorB \in CallAnchorPoints,
       minD \in CallDistances, maxD \in CallDistances, ecf \in CorrectionFactors :
        IKDistanceLimit(a, b, anchorA, anchorB, minD, maxD, ecf)

\* what one branch of UpdateJacobiansAndVelocityBias leaves in error, in
\* velocityBias and in the local linearA
Limit(e, bias, linearA) == [error |-> e, velocityBias |-> bias, linearA |-> linearA]

\* "We are exceeding the maximum limit."
ExceedingMaximum(currentDistance, maxD, ecf, linearA) ==
    Limit(currentDistance - maxD, Vec(FMul(ecf, currentDistance - maxD), 0, 0), linearA)

\* "We are exceeding the minimum limit."
ExceedingMinimum(currentDistance, minD, ecf, linearA) ==
    Limit(minD - currentDistance, Vec(FMul(ecf, minD - currentDistance), 0, 0),
          Negate(linearA))

\* "The objects are closer to hitting the maximum limit."
CloserToMaximum(currentDistance, maxD, linearA) ==
    Limit(0, Vec(currentDistance - maxD, 0, 0), linearA)

\* mutant: the slack to the minimum with the sign of a distance
CloserToMinimumPositive(currentDistance, minD, linearA) ==
    Limit(0, Vec(currentDistance - minD, 0, 0), Negate(linearA))

\* "The objects are closer to hitting the minimum limit."
CloserToMinimum(currentDistance, minD, linearA) ==
    Limit(0, Vec(minD - currentDistance, 0, 0), Negate(linearA))

\* currentDistance is not above Toolbox::Epsilon
Coincident == Limit(0, ZeroVector, ZeroVector)

\* mutant: the minimum is compared before the maximum
DistanceLimitMinimumFirst(separation, currentDistance, minD, maxD, ecf) ==
    IF currentDistance > Epsilon
    THEN LET linearA == Vec(FDiv(separation.X, currentDistance),
                            FDiv(separation.Y, currentDistance),
                            FDiv(separation.Z, currentDistance))
         IN  IF currentDistance < minD
             THEN ExceedingMinimum(currentDistance, minD, ecf, linearA)
             ELSE IF currentDistance > maxD
             THEN ExceedingMaximum(currentDistance, maxD, ecf, linearA)
             ELSE IF 2 * (currentDistance - minD) > maxD - minD
             THEN CloserToMaximum(currentDistance, maxD, linearA)
             ELSE CloserToMinimum(currentDistance, minD, linearA)
    ELSE Coincident

\* mutant: the midpoint of the band counts as closer to the maximum
DistanceLimitMidpointToMaximum(separation, currentDistance, minD, maxD, ecf) ==
    IF currentDistance > Epsilon
    THEN LET linearA == Vec(FDiv(separation.X, currentDistance),
                            FDiv(separation.Y, currentDistance),
                            FDiv(separation.Z, currentDistance))
         IN  IF currentDistance > maxD
             THEN ExceedingMaximum(currentDistance, maxD, ecf, linearA)
             ELSE IF currentDistance < minD
             THEN ExceedingMinimum(currentDistance, minD, ecf, linearA)
             ELSE IF 2 * (currentDistance - minD) >= maxD - minD
             THEN CloserToMaximum(currentDistance, maxD, linearA)
             ELSE CloserToMinimum(currentDistance, minD, linearA)
    ELSE Coincident

\* mutant: coincident anchors zero the direction only, and the bounds are
\* still compared
DistanceLimitCoincidentCompared(separation, currentDistance, minD, maxD, ecf) ==
    LET linearA == IF currentDistance > Epsilon
                   THEN Vec(FDiv(separation.X, currentDistance),
                            FDiv(separation.Y, currentDistance),
                            FDiv(separation.Z, currentDistance))
                   ELSE ZeroVector
    IN  IF currentDistance > maxD
        THEN ExceedingMaximum(currentDistance, maxD, ecf, linearA)
        ELSE IF currentDistance < minD
        THEN ExceedingMinimum(currentDistance, minD, ecf, linearA)
        ELSE IF 2 * (currentDistance - minD) > maxD - minD
        THEN CloserToMaximum(currentDistance, maxD, linearA)
        ELSE CloserToMinimum(currentDistance, minD, linearA)

\* the branches of UpdateJacobiansAndVelocityBias, in the order of the code
DistanceLimit(separation, currentDistance, minD, maxD, ecf) ==
    IF currentDistance > Epsilon
    THEN LET linearA == Vec(FDiv(separation.X, currentDistance),
                            FDiv(separation.Y, currentDistance),
                            FDiv(separation.Z, currentDistance))
         IN  IF currentDistance > maxD
             THEN ExceedingMaximum(currentDistance, maxD, ecf, linearA)
             ELSE IF currentDistance < minD
             THEN ExceedingMinimum(currentDistance, minD, ecf, linearA)
             \* (maximumDistance - minimumDistance) * 0.5f is exact: halving a
             \* float changes its exponent only
             ELSE IF 2 * (currentDistance - minD) > maxD - minD
             THEN CloserToMaximum(currentDistance, maxD, linearA)
             ELSE CloserToMinimum(currentDistance, minD, linearA)
    ELSE Coincident

\* a 1x3 jacobian in the first row of a 3x3 matrix
Row(v) == [Matrix3X3 EXCEPT !.M11 = v.X, !.M12 = v.Y, !.M13 = v.Z]

\* mutant: the row of bone B is not negated
LinearBSame(linearA) == Vec(linearA.X, linearA.Y, linearA.Z)

LinearB(linearA) == Vec(-linearA.X, -linearA.Y, -linearA.Z)

AngularA(offsetA, linearA) == Cross(offsetA, linearA)

\* mutant: the cross product in the order of AngularA
AngularBUnswapped(linearA, offsetB) == Cross(offsetB, linearA)

\* "linearB = -linearA, so just swap the cross product order."
AngularB(linearA, offsetB) == Cross(linearA, offsetB)

\* mutant: the two branches inside the band do not set error to 0
UpdateKeepingError ==
    \E offsetA \in {Transform(LocalAnchorA, connectionA.Orientation)},
       offsetB \in {Transform(LocalAnchorB, connectionB.Orientation)} :
    \E anchorA \in {Add(connectionA.Position, offsetA)},
       anchorB \in {Add(connectionB.Position, offsetB)} :
    \E separation \in {Subtract(anchorB, anchorA)} :
    \E currentDistance \in {Length(separation)} :
    \E limit \in {DistanceLimit(separation, currentDistance, minimumDistance,
                               maximumDistance, errorCorrectionFactor)} :
        /\ calls < MaxCalls
        /\ error' = IF /\ currentDistance > Epsilon
                       /\ currentDistance <= maximumDistance
                       /\ currentDistance >= minimumDistance
                    THEN error
                    ELSE limit.error
        /\ velocityBias' = limit.velocityBias
        /\ linearJacobianA' = Row(limit.linearA)
        /\ linearJacobianB' = Row(LinearB(limit.linearA))
        /\ angularJacobianA' = Row(AngularA(offsetA, limit.linearA))
        /\ angularJacobianB' = Row(AngularB(limit.linearA, offsetB))
        /\ last' = Call("UpdateJacobiansAndVelocityBias", ZeroVector, ZeroVector, FALSE)
        /\ calls' = calls + 1
        /\ UNCHANGED <<bones, config, given>>

\* each local of the code is bound once, to the value it is given
UpdateJacobiansAndVelocityBias ==
    \E offsetA \in {Transform(LocalAnchorA, connectionA.Orientation)},
       offsetB \in {Transform(LocalAnchorB, connectionB.Orientation)} :
    \E anchorA \in {Add(connectionA.Position, offsetA)},
       anchorB \in {Add(connectionB.Position, offsetB)} :
    \E separation \in {Subtract(anchorB, anchorA)} :
    \E currentDistance \in {Length(separation)} :
    \E limit \in {DistanceLimit(separation, currentDistance, minimumDistance,
                               maximumDistance, errorCorrectionFactor)} :
        /\ calls < MaxCalls
        /\ error' = limit.error
        /\ velocityBias' = limit.velocityBias
        /\ linearJacobianA' = Row(limit.linearA)
        /\ linearJacobianB' = Row(LinearB(limit.linearA))
        /\ angularJacobianA' = Row(AngularA(offsetA, limit.linearA))
        /\ angularJacobianB' = Row(AngularB(limit.linearA, offsetB))
        /\ last' = Call("UpdateJacobiansAndVelocityBias", ZeroVector, ZeroVector, FALSE)
        /\ calls' = calls + 1
        /\ UNCHANGED <<bones, config, given>>

\* mutant: an error of exactly 0.0001 counts as none
HasErrorResultInclusive(e) == ~(Abs(e) <= ErrorThreshold)

HasErrorResult(e) == ~(Abs(e) < ErrorThreshold)

HasError ==
    /\ calls < MaxCalls
    /\ last' = Call("HasError", ZeroVector, ZeroVector, HasErrorResult(error))
    /\ calls' = calls + 1
    /\ UNCHANGED <<bones, config, derived, given>>

\* the outer solver integrates the pose of a bone between two iterations
MoveBoneA(pose) ==
    /\ calls < MaxCalls
    /\ connectionA' = pose
    /\ last' = Call("MoveBoneA", ZeroVector, ZeroVector, FALSE)
    /\ calls' = calls + 1
    /\ UNCHANGED <<connectionB, config, derived, given>>

MoveBoneB(pose) ==
    /\ calls < MaxCalls
    /\ connectionB' = pose
    /\ last' = Call("MoveBoneB", ZeroVector, ZeroVector, FALSE)
    /\ calls' = calls + 1
    /\ UNCHANGED <<connectionA, config, derived, given>>

Next ==
    \/ \E anchor \in CallAnchorPoints : SetAnchorA(anchor)
    \/ \E anchor \in CallAnchorPoints : SetAnchorB(anchor)
    \/ \E newDistance \in CallDistances : SetMinimumDistance(newDistance)
    \/ \E newDistance \in CallDistances : SetMaximumDistance(newDistance)
    \/ UpdateJacobiansAndVelocityBias
    \/ HasError
    \/ \E pose \in CallBones : MoveBoneA(pose)
    \/ \E pose \in CallBones : MoveBoneB(pose)

Spec == Init /\ [][Next]_vars

\* the recomputation alone, on every constraint the inputs construct
InitUpdate ==
    \E a \in Bones, b \in UpdateBones, anchorA \in UpdateAnchorPoints, anchorB \in AnchorPoints,
       minD \in Distances, maxD \in Distances, ecf \in CorrectionFactors :
        IKDistanceLimit(a, b, anchorA, anchorB, minD, maxD, ecf)

NextUpdate ==
    \/ UpdateJacobiansAndVelocityBias
    \/ HasError

SpecUpdate == InitUpdate /\ [][NextUpdate]_vars

---------------------------------------------------------------------------
(* The geometry UpdateJacobiansAndVelocityBias reads, as state functions *)

OffsetA == Transform(LocalAnchorA, connectionA.Orientation)

OffsetB == Transform(LocalAnchorB, connectionB.Orientation)

Separation == Subtract(Add(connectionB.Position, OffsetB), Add(connectionA.Position, OffsetA))

CurrentDistance == Length(Separation)

\* unit(anchorB - anchorA); read only where CurrentDistance > 0
UnitSeparation == Vec(FDiv(Separation.X, CurrentDistance),
                      FDiv(Separation.Y, CurrentDistance),
                      FDiv(Separation.Z, CurrentDistance))

FirstRow(m) == Vec(m.M11, m.M12, m.M13)

OtherRowsZero(m) ==
    /\ m.M21 = 0 /\ m.M22 = 0 /\ m.M23 = 0
    /\ m.M31 = 0 /\ m.M32 = 0 /\ m.M33 = 0

\* the last call was a recomputation: the derived state is the one it stored
\* for the poses and the configuration of this state
Updated == last.op = "UpdateJacobiansAndVelocityBias"

InBand == minimumDistance <= CurrentDistance /\ CurrentDistance <= maximumDistance

Smaller(a, b) == IF a < b THEN a ELSE b

---------------------------------------------------------------------------
(* Claims *)

\* C1: after a non-degenerate recompute, a distance above maximumDistance gives
\* error = currentDistance - maximumDistance, else a distance below
\* minimumDistance gives error = minimumDistance - currentDistance; in both
\* velocityBias = (errorCorrectionFactor * error, 0, 0).  With both comparisons
\* true the upper-bound result is stored.  min 2, max 5: distance 6 and
\* distance 1 both give error 1 and velocityBias.x = errorCorrectionFactor.
C1_BoundViolation ==
    (Updated /\ CurrentDistance > Epsilon) =>
        /\ CurrentDistance > maximumDistance =>
              /\ error = CurrentDistance - maximumDistance
              /\ velocityBias = Vec(FMul(errorCorrectionFactor, error), 0, 0)
        /\ (CurrentDistance <= maximumDistance /\ CurrentDistance < minimumDistance) =>
              /\ error = minimumDistance - CurrentDistance
              /\ velocityBias = Vec(FMul(errorCorrectionFactor, error), 0, 0)
        /\ (minimumDistance = W(2) /\ maximumDistance = W(5)
              /\ CurrentDistance \in {W(1), W(6)}) =>
              /\ error = W(1)
              /\ velocityBias.X = errorCorrectionFactor

C1_Witness ==
    /\ Updated
    /\ CurrentDistance > maximumDistance
    /\ CurrentDistance < minimumDistance
    /\ error = CurrentDistance - maximumDistance
    /\ velocityBias.X > 0
    /\ velocityBias.X < error

\* C2: after a non-degenerate recompute with the distance inside
\* [minimumDistance, maximumDistance], error is 0, velocityBias.y and .z are 0
\* and velocityBias.x is minus the slack to the nearer bound, which is
\* currentDistance - maximumDistance when currentDistance - minimumDistance is
\* above half the band and minimumDistance - currentDistance otherwise.
\* min 2, max 5: distance 4 gives velocityBias.x = -1 and distance 2.5 gives
\* velocityBias.x = -0.5.
C2_InBand ==
    (Updated /\ CurrentDistance > Epsilon /\ InBand) =>
        /\ error = 0
        /\ velocityBias.Y = 0
        /\ velocityBias.Z = 0
        /\ velocityBias.X <= 0
        /\ velocityBias.X = - Smaller(CurrentDistance - minimumDistance,
                                      maximumDistance - CurrentDistance)
        /\ velocityBias.X =
              IF 2 * (CurrentDistance - minimumDistance) > maximumDistance - minimumDistance
              THEN CurrentDistance - maximumDistance
              ELSE minimumDistance - CurrentDistance
        /\ (minimumDistance = W(2) /\ maximumDistance = W(5) /\ CurrentDistance = W(4)) =>
              velocityBias.X = - W(1)
        /\ (minimumDistance = W(2) /\ maximumDistance = W(5)
              /\ CurrentDistance = W(5) \div 2) =>
              velocityBias.X = - (W(1) \div 2)

C2_Witness ==
    /\ Updated
    /\ CurrentDistance > Epsilon
    /\ minimumDistance < CurrentDistance
    /\ 2 * (CurrentDistance - minimumDistance) < maximumDistance - minimumDistance
    /\ error = 0
    /\ velocityBias.X = minimumDistance - CurrentDistance

\* C3: after a non-degenerate recompute, the first row of linearJacobianA is
\* +unit(anchorB - anchorA) above maximumDistance and inside the band closer to
\* the maximum, and -unit(anchorB - anchorA) below minimumDistance and inside
\* the band closer to the minimum (the exact midpoint included).
C3_Direction ==
    (Updated /\ CurrentDistance > Epsilon) =>
        FirstRow(linearJacobianA) =
            IF CurrentDistance > maximumDistance THEN UnitSeparation
            ELSE IF CurrentDistance < minimumDistance THEN Negate(UnitSeparation)
            ELSE IF 2 * (CurrentDistance - minimumDistance) > maximumDistance - minimumDistance
            THEN UnitSeparation
            ELSE Negate(UnitSeparation)

\* the exact midpoint of a band that is not a point
C3_Witness ==
    /\ Updated
    /\ CurrentDistance > Epsilon
    /\ minimumDistance < maximumDistance
    /\ 2 * (CurrentDistance - minimumDistance) = maximumDistance - minimumDistance
    /\ FirstRow(linearJacobianA) = Negate(UnitSeparation)
    /\ FirstRow(linearJacobianA) # UnitSeparation

\* C4: after a recompute with coincident anchors (distance at or below epsilon),
\* error is 0, velocityBias is zero and the four jacobians are zero, whatever
\* the bounds are; HasError is then false.
C4_Coincident ==
    (Updated /\ CurrentDistance <= Epsilon) =>
        /\ error = 0
        /\ velocityBias = ZeroVector
        /\ linearJacobianA = Matrix3X3
        /\ linearJacobianB = Matrix3X3
        /\ angularJacobianA = Matrix3X3
        /\ angularJacobianB = Matrix3X3
        /\ Abs(error) < ErrorThreshold

C4_Witness ==
    /\ Updated
    /\ CurrentDistance <= Epsilon
    /\ minimumDistance > 0
    /\ OffsetA # ZeroVector
    /\ error = 0
    /\ linearJacobianA = Matrix3X3

\* C5: each stored bound is max(0, v) for the last value v given for it, by the
\* constructor or by its own setter; so both are >= 0, the getters return that
\* value, and a setter of one bound leaves the other as it was.
C5_Clamp ==
    /\ minimumDistance = (IF given.minimumDistance < 0 THEN 0 ELSE given.minimumDistance)
    /\ maximumDistance = (IF given.maximumDistance < 0 THEN 0 ELSE given.maximumDistance)
    /\ GetMinimumDistance >= 0
    /\ GetMaximumDistance >= 0
    /\ GetMinimumDistance = minimumDistance
    /\ GetMaximumDistance = maximumDistance

\* a negative maximum given by the setter, under a positive minimum
C5_Witness ==
    /\ last.op = "SetMaximumDistance"
    /\ given.maximumDistance < 0
    /\ maximumDistance = 0
    /\ minimumDistance > maximumDistance

\* C6: after every recompute the first row of linearJacobianB is the negation
\* of the first row of linearJacobianA, and the second and third rows of the
\* four jacobians are zero.
C6_Antisymmetry ==
    Updated =>
        /\ FirstRow(linearJacobianB) = Negate(FirstRow(linearJacobianA))
        /\ OtherRowsZero(linearJacobianA)
        /\ OtherRowsZero(linearJacobianB)
        /\ OtherRowsZero(angularJacobianA)
        /\ OtherRowsZero(angularJacobianB)

C6_Witness ==
    /\ Updated
    /\ linearJacobianA.M11 # 0
    /\ linearJacobianA.M12 # 0
    /\ linearJacobianB.M11 = - linearJacobianA.M11
    /\ connectionA.Orientation = ThirdTurn

\* 0.0005: the rounding of the two rotations of an anchor a few units long
AnchorTolerance == Scale \div 2000

Near(a, b) ==
    /\ Abs(a.X - b.X) <= AnchorTolerance
    /\ Abs(a.Y - b.Y) <= AnchorTolerance
    /\ Abs(a.Z - b.Z) <= AnchorTolerance

\* the rotations whose products are all exact
ExactRotation(q) == q \in {Identity, ThirdTurn}

\* C7 as stated: right after SetAnchorA(P), GetAnchorA is exactly P, the same
\* for SetAnchorB and GetAnchorB, and right after the constructor both getters
\* give exactly the anchors it was passed.
C7_ExactRoundTrip ==
    /\ last.op = "SetAnchorA" => GetAnchorA = last.anchorA
    /\ last.op = "SetAnchorB" => GetAnchorB = last.anchorB
    /\ last.op = "IKDistanceLimit" =>
          (GetAnchorA = last.anchorA /\ GetAnchorB = last.anchorB)

\* C7 amended: right after SetAnchorA(P), GetAnchorA is P to within the
\* rounding of the two rotations, and exactly P where no operation of the round
\* trip rounds (whole coordinates, a rotation with exact products); the same
\* for SetAnchorB and for the constructor.
\* SetAnchorA changes LocalAnchorA only and SetAnchorB changes LocalAnchorB only.
C7_AnchorRoundTrip ==
    /\ [](/\ last.op \in {"SetAnchorA", "IKDistanceLimit"} =>
                /\ Near(GetAnchorA, last.anchorA)
                /\ ExactRotation(connectionA.Orientation) => GetAnchorA = last.anchorA
          /\ last.op \in {"SetAnchorB", "IKDistanceLimit"} =>
                /\ Near(GetAnchorB, last.anchorB)
                /\ ExactRotation(connectionB.Orientation) => GetAnchorB = last.anchorB)
    /\ [][/\ (calls' = calls + 1 /\ last'.op = "SetAnchorA") =>
                UNCHANGED <<bones, LocalAnchorB, minimumDistance, maximumDistance,
                            errorCorrectionFactor, derived>>
          /\ (calls' = calls + 1 /\ last'.op = "SetAnchorB") =>
                UNCHANGED <<bones, LocalAnchorA, minimumDistance, maximumDistance,
                            errorCorrectionFactor, derived>>]_vars

\* an anchor set on a bone whose rotation rounds, after the bone was moved
C7_Witness ==
    /\ last.op = "SetAnchorA"
    /\ calls >= 2
    /\ connectionA.Orientation = HalfTurn
    /\ GetAnchorA # last.anchorA
    /\ Near(GetAnchorA, last.anchorA)

\* C8: HasError returns false exactly when |error| < 0.0001 (two units): false
\* for an error of 0.00005, true for 0.0001 and for 0.0002; it changes no state.
C8_HasError ==
    /\ [](last.op = "HasError" =>
            /\ last.result = (Abs(error) >= ErrorThreshold)
            /\ error = 1 => last.result = FALSE
            /\ error = 2 => last.result = TRUE
            /\ error = 4 => last.result = TRUE)
    /\ [][(calls' = calls + 1 /\ last'.op = "HasError") =>
              UNCHANGED <<bones, config, derived>>]_vars

\* an error of 0.00005 left by a recomputation
C8_Witness ==
    /\ last.op = "HasError"
    /\ error = 1
    /\ last.result = FALSE

\* the derived state a recomputation stores for the poses and the configuration
\* of this state, whatever the derived state was before
FirstUpdate ==
    LET limit == DistanceLimit(Separation, CurrentDistance, minimumDistance,
                               maximumDistance, errorCorrectionFactor)
    IN  <<limit.error, limit.velocityBias, Row(limit.linearA),
          Row(LinearB(limit.linearA)), Row(AngularA(OffsetA, limit.linearA)),
          Row(AngularB(limit.linearA, OffsetB))>>

\* C9: after any history of calls, the derived state a recompute stores is the
\* one a first recompute stores for the same poses and configuration, and a
\* recompute changes neither the poses nor the configuration.
C9_Pure ==
    /\ [](Updated => derived = FirstUpdate)
    /\ [][(calls' = calls + 1 /\ last'.op = "UpdateJacobiansAndVelocityBias") =>
              UNCHANGED <<bones, config>>]_vars

\* a third call: a recomputation inside the band, after an earlier one left an
\* error and a setter moved a bound
C9_Witness ==
    /\ Updated
    /\ calls = 3
    /\ CurrentDistance > Epsilon
    /\ InBand
    /\ error = 0
    /\ given.maximumDistance = W(5)

\* C10: after every recompute the first row of angularJacobianA is
\* cross(offsetA, first row of linearJacobianA) and the first row of
\* angularJacobianB is cross(first row of linearJacobianA, offsetB), which is
\* cross(offsetB, first row of linearJacobianB).
C10_Angular ==
    Updated =>
        /\ FirstRow(angularJacobianA) = Cross(OffsetA, FirstRow(linearJacobianA))
        /\ FirstRow(angularJacobianB) = Cross(FirstRow(linearJacobianA), OffsetB)
        /\ FirstRow(angularJacobianB) = Cross(OffsetB, FirstRow(linearJacobianB))

\* a negated direction, with both angular rows not zero
C10_Witness ==
    /\ Updated
    /\ CurrentDistance > Epsilon
    /\ FirstRow(linearJacobianA) = Negate(UnitSeparation)
    /\ FirstRow(angularJacobianA) # ZeroVector
    /\ FirstRow(angularJacobianB) # ZeroVector
    /\ connectionB.Orientation = ThirdTurn

====
